---- MODULE Spec2Model ----
(***************************************************************************)
(* Market-movers ranking engine: MarketDataService (constituent registry,  *)
(* price snapshots, index summary, index-impact arithmetic, top-mover      *)
(* ranking) and the ReportGenerator pipeline that drives it.               *)
(*                                                                         *)
(* Units.  Python floats are modelled as exact fixed-point integers:       *)
(*   percent_change, weight  in halves of a percent  (3 is 1.5, 13 is 6.5) *)
(*   index level, prices     in whole points                               *)
(*   index_points_contribution in hundredths (450 is 4.50), which is what  *)
(*                             round(x, 2) produces.                       *)
(* The database holds the rows of the trading dates in Dates; every table  *)
(* is a set (or, where the row order is read, a sequence) of rows, and a   *)
(* commit enforces the UniqueConstraints declared in app/db/models.py.     *)
(***************************************************************************)
EXTENDS Integers, Sequences, FiniteSets, TLC

VARIABLES
  tieAway,           \* how round() resolves an exact decimal tie on this platform
  TOP_MOVERS_COUNT,  \* Config.TOP_MOVERS_COUNT, read from the environment
  TEST_MODE,         \* Config.TEST_MODE
  TEST_STOCK_COUNT,  \* Config.TEST_STOCK_COUNT
  market,            \* the quote provider's quotes of the day
  constituents,      \* table index_constituents, rows in insertion order
  dailyPrices,       \* table daily_prices
  indexSummaries,    \* table index_summaries
  marketMovers,      \* table market_movers
  dailyReports,      \* table daily_reports
  newsArticles,      \* table news_articles, rows in insertion order
  last,              \* the most recent call: its arguments, what it saw and returned
  run,               \* the generate_and_send_report call in progress, or the last one
  finnhub_limiter,   \* the RateLimiter every FinnhubClient method goes through
  wrapper,           \* where each caller stands in RateLimiter's wrapper
  clock,             \* time.time(), and when the underlying calls ended and began
  userSubscriptions  \* table of UserSubscription rows

vars == <<tieAway, TOP_MOVERS_COUNT, TEST_MODE, TEST_STOCK_COUNT, market,
          constituents, dailyPrices, indexSummaries, marketMovers, dailyReports,
          newsArticles, last, run, finnhub_limiter, wrapper, clock, userSubscriptions>>

\* ------------------------------------------------------------------ bounds

NumSymbols == 6
MaxPct == 6
MaxWeight == 14
MaxArticles == 4
MaxTime == 7

Symbols == 1..NumSymbols
Dates == {"d1"}
\* Python's None (SQL NULL) in a numeric column or return value: a number no
\* price, level, percent or contribution of the model takes.
None == 0 - 1000000

Abs(x) == IF x < 0 THEN -x ELSE x
Sign(x) == IF x < 0 THEN -1 ELSE IF x > 0 THEN 1 ELSE 0

\* finnhub_limiter = RateLimiter(calls_per_minute=30); rate_limit_seconds is
\* 60.0 / calls_per_minute, the clock counts seconds.
calls_per_minute == 30
rate_limit_seconds == 60 \div calls_per_minute

\* The threads that call FinnhubClient: the scheduler's job and a request's
\* background task.
Callers == {"job", "task"}

\* The process before any provider call or API request: RateLimiter.__init__
\* leaves last_call_time = 0, and time.time() is far beyond rate_limit_seconds.
NoApiTraffic ==
  /\ finnhub_limiter = [last_call_time |-> 0]
  /\ wrapper = [c \in Callers |-> [pc |-> "idle", wake |-> 0, outcome |-> "none"]]
  /\ clock = [now |-> rate_limit_seconds, ended |-> None, gap |-> None]
  /\ userSubscriptions = <<>>

\* ------------------------------------------------- index impact calculator

\* round(n/d, 0) of a non-negative rational n/d (d > 0): the nearest integer; an
\* exact tie goes where the float's binary representation puts it, which is fixed
\* for the platform but not a function of the decimal value: tieAway.
RoundMagnitude(n, d) ==
  LET q == n \div d
      r == n % d
  IN  IF 2 * r < d THEN q
      ELSE IF 2 * r > d THEN q + 1
      ELSE IF tieAway THEN q + 1 ELSE q

Round2(n, d) == Sign(n) * RoundMagnitude(Abs(n), d)

\* index_contribution_pct = (weight * percent_change) / 100 without the second
\* division: the contribution in percent of the index, not in points.
calculate_index_impact_pct_only(percent_change, weight, index_level) ==
  Round2(weight * percent_change * 100, 2 * 2 * 100)

\* calculate_index_impact: with weight = W/2 and percent_change = P/2 the value
\* ((W/2 * P/2) / 100 * L) / 100 is W*P*L / 40000, i.e. W*P*L / 400 hundredths.
calculate_index_impact(percent_change, weight, index_level) ==
  LET index_contribution_pct_num == weight * percent_change
      index_points_num == index_contribution_pct_num * index_level
  IN  Round2(index_points_num, 2 * 2 * 100)

ImpactPcts == (-MaxPct)..MaxPct
ImpactWeights == (-2)..MaxWeight
ImpactLevels == {0, 4000, 4500, 5000}

InitImpact ==
  /\ tieAway \in BOOLEAN
  /\ NoApiTraffic
  /\ TOP_MOVERS_COUNT = 5
  /\ TEST_MODE = FALSE
  /\ TEST_STOCK_COUNT = 10
  /\ market = <<>>
  /\ constituents = <<>>
  /\ dailyPrices = {}
  /\ indexSummaries = {}
  /\ marketMovers = {}
  /\ dailyReports = {}
  /\ newsArticles = <<>>
  /\ last = [op |-> "none"]
  /\ run = [pc |-> "idle"]

CalcImpact ==
  /\ \E pc \in ImpactPcts, w \in ImpactWeights, L \in ImpactLevels :
       last' = [op |-> "calculate_index_impact",
                percent_change |-> pc, weight |-> w, index_level |-> L,
                result |-> calculate_index_impact(pc, w, L)]
  /\ UNCHANGED <<finnhub_limiter, wrapper, clock, userSubscriptions, tieAway, TOP_MOVERS_COUNT, TEST_MODE, TEST_STOCK_COUNT, market,
                 constituents, dailyPrices, indexSummaries, marketMovers, dailyReports, newsArticles, run>>

NextImpact == CalcImpact

SpecImpact == InitImpact /\ [][NextImpact]_vars

\* ------------------------------------------------------------ environment

\* What the S3 object sp500-data/<date>/sp500_data.json may hold when it is read:
\* the "data" entries (company, symbol, weight), heaviest first.
BaseWeights == <<13, 12, 8, 6, 4, 2, 1, 1>>

FullList ==
  [i \in 1..NumSymbols |-> [symbol |-> i, company |-> 100 + i, weight |-> BaseWeights[i]]]

\* The same index after symbol 1 was dropped and the weights moved up one place.
RebalancedList ==
  [i \in 1..(NumSymbols - 1) |->
     [symbol |-> i + 1, company |-> 200 + i + 1, weight |-> BaseWeights[i]]]

\* load_top_constituents_s3: the list, or the RuntimeError it raises.
S3Error == [error |-> TRUE, data |-> <<>>]
S3Loads == {[error |-> FALSE, data |-> FullList],
            [error |-> FALSE, data |-> RebalancedList],
            [error |-> FALSE, data |-> <<>>],
            S3Error}

\* The provider's quotes of the day ("c" current price, "dp" percent change in
\* halves of a percent, None when the provider sends none), and SPY's price.
RallyPct == <<1, 1, 4, 2, 6, 3, 5, 2>>
MixedPct == <<4, -3, 1, 0, None, -6, 2, -1>>

Negated(x) == IF x = None THEN None ELSE -x

RallyMarket ==
  [quotes |-> [s \in Symbols |-> [c |-> 100 + 10 * s, dp |-> RallyPct[s]]], spy |-> 500]
MixedMarket ==
  [quotes |-> [s \in Symbols |-> [c |-> 100 + 10 * s, dp |-> MixedPct[s]]], spy |-> 500]
SelloffMarket ==
  [quotes |-> [s \in Symbols |-> [c |-> 100 + 10 * s, dp |-> Negated(RallyPct[s])]],
   spy |-> 400]

Markets == {RallyMarket, MixedMarket, SelloffMarket}

NoQuote == [valid |-> FALSE, c |-> None, dp |-> None]

\* client.quote(symbol) for every symbol: `answered` are the symbols the provider
\* sends a valid quote for; for the others it raises or sends no "c".
QuotesGiven(answered) ==
  [s \in Symbols |->
     IF s \in answered
     THEN [valid |-> TRUE, c |-> market.quotes[s].c, dp |-> market.quotes[s].dp]
     ELSE NoQuote]

\* ---------------------------------------------------------------- database

DB == [constituents |-> constituents, dailyPrices |-> dailyPrices,
       indexSummaries |-> indexSummaries, marketMovers |-> marketMovers,
       dailyReports |-> dailyReports, newsArticles |-> newsArticles]

Range(seq) == {seq[i] : i \in DOMAIN seq}

\* UniqueConstraint('symbol', 'date') of a table holding `rows` when the pending
\* rows `added` (a sequence: session.add keeps every object) are flushed.
SymbolDateUnique(rows, added) ==
  /\ \A i, j \in DOMAIN added :
       (added[i].symbol = added[j].symbol /\ added[i].date = added[j].date) => i = j
  /\ \A i \in DOMAIN added : \A r \in rows :
       ~(r.symbol = added[i].symbol /\ r.date = added[i].date)

\* MarketMover.__table_args__: _symbol_date_mover_uc
MarketMoverConstraint(rows, added) == SymbolDateUnique(rows, added)

\* DailyPrice.__table_args__: _symbol_date_uc
DailyPriceConstraint(rows, added) == SymbolDateUnique(rows, added)

\* IndexSummary.date and DailyReport.report_date: unique=True
DateUnique(rows, added) ==
  /\ \A i, j \in DOMAIN added : added[i].date = added[j].date => i = j
  /\ \A i \in DOMAIN added : \A r \in rows : r.date # added[i].date

\* A table that accepts a second report of a date.
DailyReportUnconstrained(rows, added) == TRUE

\* DailyReport.report_date: unique=True
DailyReportConstraint(rows, added) == DateUnique(rows, added)

\* --------------------------------------------------- constituent registry

ActiveConstituents(cons) == SelectSeq(cons, LAMBDA c : c.is_active)

HasSymbol(cons, sym) == \E i \in DOMAIN cons : cons[i].symbol = sym

\* INSERT ... ON CONFLICT (symbol) DO UPDATE of one row.
UpsertOne(cons, item) ==
  IF HasSymbol(cons, item.symbol)
  THEN [i \in DOMAIN cons |->
          IF cons[i].symbol = item.symbol
          THEN [cons[i] EXCEPT !.company_name = item.company,
                               !.weight = item.weight,
                               !.is_active = TRUE]
          ELSE cons[i]]
  ELSE Append(cons, [symbol |-> item.symbol, company_name |-> item.company,
                     weight |-> item.weight, is_active |-> TRUE])

RECURSIVE upsert_all_constituents(_, _)
upsert_all_constituents(cons, items) ==
  IF items = <<>> THEN cons
  ELSE upsert_all_constituents(UpsertOne(cons, Head(items)), Tail(items))

\* A row the update leaves as it is.
LeaveActive(row) == row

\* update({"is_active": False}) of one row.
Deactivate(row) == [row EXCEPT !.is_active = FALSE]

\* update_sp500_constituents: `loaded` is what load_top_constituents_s3 gives.
update_sp500_constituents(db, loaded) ==
  IF loaded.error
  THEN [db |-> db, raised |-> "RuntimeError", ret |-> None]
  ELSE LET new_list == loaded.data
           upserted == upsert_all_constituents(db.constituents, new_list)
           symbols == {new_list[i].symbol : i \in DOMAIN new_list}
           deactivated ==
             [i \in DOMAIN upserted |->
                IF upserted[i].symbol \notin symbols
                THEN Deactivate(upserted[i])
                ELSE upserted[i]]
       IN  [db |-> [db EXCEPT !.constituents = deactivated],
            raised |-> "none", ret |-> Len(new_list)]

\* ------------------------------------------------------------ index level

\* A lookup that falls back to a level instead of returning None.
get_index_level_or_default(db, target_date) ==
  IF \E r \in db.indexSummaries : r.date = target_date
  THEN (CHOOSE r \in db.indexSummaries : r.date = target_date).current_price
  ELSE 5000

get_index_level(db, target_date) ==
  IF \E r \in db.indexSummaries : r.date = target_date
  THEN (CHOOSE r \in db.indexSummaries : r.date = target_date).current_price
  ELSE None

\* get_or_fetch_index_summary: spy_quote is SPY's "c", or None when the provider
\* has no valid quote.
\* The quote's value stored as it came.
Unscaled(value) == value

\* spy_quote["c"] * 10: SPY's price stored as an index level.
Scaled(value) == value * 10

\* A lookup that never finds the stored summary.
SummaryNeverFound(db, target_date) == FALSE

\* filter_by(date=target_date).one_or_none() is a row.
SummaryFound(db, target_date) == \E r \in db.indexSummaries : r.date = target_date

\* `quoted`: client.quote("SPY") was called.
get_or_fetch_index_summary(db, target_date, spy_quote) ==
  IF SummaryFound(db, target_date)
  THEN [db |-> db, raised |-> "none", ret |-> get_index_level(db, target_date),
        quoted |-> FALSE]
  ELSE IF spy_quote = None
  THEN [db |-> db, raised |-> "RuntimeError", ret |-> None, quoted |-> TRUE]
  ELSE LET new_summary == [date |-> target_date, current_price |-> Scaled(spy_quote)]
       IN  IF DateUnique(db.indexSummaries, <<new_summary>>)
           THEN [db |-> [db EXCEPT !.indexSummaries = @ \cup {new_summary}],
                 raised |-> "none", ret |-> new_summary.current_price,
                 quoted |-> TRUE]
           ELSE [db |-> db, raised |-> "IntegrityError", ret |-> None,
                 quoted |-> TRUE]

\* ------------------------------------------------------------ daily prices

\* The loop of fetch_daily_prices over `symbols`, with quotes[s] what
\* client.quote(s) gives. The session does not autoflush, so the existence query
\* sees committed rows only.
\* A lookup that never finds the stored observation.
PriceNeverFound(db, symbol, target_date) == FALSE

\* filter_by(symbol=symbol, date=target_date).one_or_none() is a row.
PriceFound(db, symbol, target_date) ==
  \E r \in db.dailyPrices : r.symbol = symbol /\ r.date = target_date

\* A loop that gives up at the first symbol without a valid quote.
RECURSIVE PendingPricesUntilFailure(_, _, _, _)
PendingPricesUntilFailure(db, symbols, target_date, quotes) ==
  IF symbols = <<>> THEN <<>>
  ELSE LET symbol == Head(symbols)
           rest == PendingPricesUntilFailure(db, Tail(symbols), target_date, quotes)
       IN  IF ~quotes[symbol].valid THEN <<>>
           ELSE IF PriceFound(db, symbol, target_date) THEN rest
           ELSE IF ~HasSymbol(db.constituents, symbol) THEN rest
           ELSE <<[symbol |-> symbol, date |-> target_date,
                   current_price |-> quotes[symbol].c,
                   percent_change |-> quotes[symbol].dp]>> \o rest

RECURSIVE PendingPrices(_, _, _, _)
PendingPrices(db, symbols, target_date, quotes) ==
  IF symbols = <<>> THEN <<>>
  ELSE LET symbol == Head(symbols)
           rest == PendingPrices(db, Tail(symbols), target_date, quotes)
       IN  IF ~quotes[symbol].valid THEN rest
           ELSE IF PriceFound(db, symbol, target_date) THEN rest
           ELSE IF ~HasSymbol(db.constituents, symbol) THEN rest
           ELSE <<[symbol |-> symbol, date |-> target_date,
                   current_price |-> quotes[symbol].c,
                   percent_change |-> quotes[symbol].dp]>> \o rest

\* fetch_daily_prices; `prices` is the dict it returns and `ret` the keys of it.
fetch_daily_prices(db, symbols, target_date, quotes) ==
  LET pending == PendingPrices(db, symbols, target_date, quotes)
      keys == {s \in Range(symbols) : quotes[s].valid}
      prices == [s \in keys |-> [current_price |-> quotes[s].c,
                                 percent_change |-> quotes[s].dp]]
  IN  IF DailyPriceConstraint(db.dailyPrices, pending)
      THEN [db |-> [db EXCEPT !.dailyPrices = @ \cup Range(pending)],
            raised |-> "none", ret |-> keys, prices |-> prices]
      ELSE [db |-> db, raised |-> "IntegrityError", ret |-> {}, prices |-> <<>>]

\* ----------------------------------------------------- mover ranking engine

Min(a, b) == IF a < b THEN a ELSE b

\* The literal 5 of gainers = [...][:5] and of losers = [...][:5].
GainersLimit == 5
LosersLimit == 5

\* A lookup that forgets the symbol: any observation of the date.
PriceRecordsAnySymbol(db, symbol, target_date) ==
  {r \in db.dailyPrices : r.date = target_date}

\* prices.get(c.symbol): the DailyPrice rows of the date for the symbol.
PriceRecords(db, symbol, target_date) ==
  {r \in db.dailyPrices : r.date = target_date /\ r.symbol = symbol}

\* The loop that builds `movers`: one entry per constituent of `cons` (in query
\* order) that has a DailyPrice of the date with a percent_change.
RECURSIVE BuildMovers(_, _, _, _)
BuildMovers(db, cons, target_date, index_level) ==
  IF cons = <<>> THEN <<>>
  ELSE LET c == Head(cons)
           records == PriceRecords(db, c.symbol, target_date)
           rest == BuildMovers(db, Tail(cons), target_date, index_level)
       IN  IF records = {} THEN rest
           ELSE LET p == CHOOSE r \in records : TRUE
                IN  IF p.percent_change = None THEN rest
                    ELSE <<[symbol |-> c.symbol,
                            company_name |-> c.company_name,
                            percent_change |-> p.percent_change,
                            close_price |-> p.current_price,
                            index_points_contribution |->
                              calculate_index_impact(p.percent_change, c.weight,
                                                     index_level)]>> \o rest

\* The key a slip would use instead: the size of the price change.
MoverSortKeyPercent(m) == Abs(m.percent_change)

\* key=lambda m: abs(m["index_points_contribution"])
MoverSortKey(m) == Abs(m.index_points_contribution)

\* movers.sort(key=..., reverse=True): descending and stable, entries of equal
\* key keep their order.
RECURSIVE SortMovers(_)
SortMovers(movers) ==
  IF movers = <<>> THEN <<>>
  ELSE LET n == Len(movers)
           sorted == SortMovers(SubSeq(movers, 1, n - 1))
           m == movers[n]
           k == Cardinality({i \in DOMAIN sorted :
                               MoverSortKey(sorted[i]) >= MoverSortKey(m)})
       IN  SubSeq(sorted, 1, k) \o <<m>> \o SubSeq(sorted, k + 1, Len(sorted))

\* A filter that lets an unchanged stock through: percent_change >= 0.
GainersNonNegative(movers) ==
  LET positive == SelectSeq(movers, LAMBDA m : m.percent_change >= 0)
  IN  SubSeq(positive, 1, Min(GainersLimit, Len(positive)))

\* A selection from the wrong end of the order: the last five.
GainersFromEnd(movers) ==
  LET positive == SelectSeq(movers, LAMBDA m : m.percent_change > 0)
  IN  SubSeq(positive, Len(positive) - Min(GainersLimit, Len(positive)) + 1,
             Len(positive))

Gainers(movers) ==
  LET positive == SelectSeq(movers, LAMBDA m : m.percent_change > 0)
  IN  SubSeq(positive, 1, Min(GainersLimit, Len(positive)))

Losers(movers) ==
  LET negative == SelectSeq(movers, LAMBDA m : m.percent_change < 0)
  IN  SubSeq(negative, 1, Min(LosersLimit, Len(negative)))

\* A direction that ignores which list the row comes from.
MoverTypeGainer(sign) == "gainer"

\* mover_type="gainer" in the gainers loop, mover_type="loser" in the losers loop.
MoverType(sign) == IF sign > 0 THEN "gainer" ELSE "loser"

\* The MarketMover objects added for the gainers (sign 1) or the losers (sign -1).
MoverRows(selected, target_date, sign) ==
  [i \in DOMAIN selected |->
     [date |-> target_date,
      symbol |-> selected[i].symbol,
      company_name |-> selected[i].company_name,
      percent_change |-> selected[i].percent_change,
      index_points_contribution |-> selected[i].index_points_contribution,
      close_price |-> selected[i].close_price,
      rank |-> sign * i,
      mover_type |-> MoverType(sign),
      positive_headline |-> None,
      positive_headline_score |-> None,
      positive_headline_url |-> None,
      negative_headline |-> None,
      negative_headline_score |-> None,
      negative_headline_url |-> None]]

\* An except branch that hands back the lists it had built.
RankingFailedWithLists(db, index_level, refreshed, movers, error) ==
  [db |-> db, gainers |-> Gainers(movers), losers |-> Losers(movers),
   error |-> error, index_level |-> index_level, refreshed |-> refreshed,
   movers |-> movers]

\* The except branch of identify_top_movers: roll back, return [], [].
RankingFailed(db, index_level, refreshed, movers, error) ==
  [db |-> db, gainers |-> <<>>, losers |-> <<>>, error |-> error,
   index_level |-> index_level, refreshed |-> refreshed, movers |-> movers]

\* A ranking that leaves the registry to its caller.
NeverRefresh(db) == FALSE

\* "if not constituents": no active constituent, the registry is updated.
NeedsRefresh(db) == ActiveConstituents(db.constituents) = <<>>

\* identify_top_movers: `loaded` is what S3 gives if the registry is refreshed.
identify_top_movers(db, target_date, loaded) ==
  LET index_level == get_index_level(db, target_date)
      refreshed == NeedsRefresh(db)
      update == IF refreshed THEN update_sp500_constituents(db, loaded)
                ELSE [db |-> db, raised |-> "none", ret |-> None]
      constituents_ == ActiveConstituents(update.db.constituents)
      movers == SortMovers(BuildMovers(update.db, constituents_, target_date, index_level))
      gainers == Gainers(movers)
      losers == Losers(movers)
      added == MoverRows(gainers, target_date, 1) \o MoverRows(losers, target_date, -1)
  IN  IF index_level = None
      THEN RankingFailed(db, None, FALSE, <<>>, "ValueError")
      ELSE IF update.raised # "none"
      THEN RankingFailed(update.db, index_level, refreshed, <<>>, update.raised)
      ELSE IF ~MarketMoverConstraint(update.db.marketMovers, added)
      THEN RankingFailed(update.db, index_level, refreshed, movers, "IntegrityError")
      ELSE [db |-> [update.db EXCEPT !.marketMovers = @ \cup Range(added)],
            gainers |-> gainers, losers |-> losers, error |-> "none",
            index_level |-> index_level, refreshed |-> refreshed, movers |-> movers]

\* -------------------------------------------------------------------- news

\* What company_news and the sentiment pipeline hold for the day. An article is
\* its url and its headline (numbers standing for the texts); the provider has
\* news for the symbols in NewsSymbols and sends the first k of them, more as
\* the day goes on, or raises.
NewsSymbols == {1, 2}

ProviderArticle(symbol, k) == [url |-> 100 * symbol + k, headline |-> 1000 * symbol + k]

NewsFeed(symbol) ==
  IF symbol \in NewsSymbols
  THEN [k \in 1..MaxArticles |-> ProviderArticle(symbol, k)]
  ELSE <<>>

NewsError == [error |-> TRUE, articles |-> <<>>]

NewsResponses(symbol) ==
  {[error |-> FALSE, articles |-> SubSeq(NewsFeed(symbol), 1, k)] :
     k \in 0..Len(NewsFeed(symbol))} \cup {NewsError}

Cycle(seq, k) == seq[((k - 1) % Len(seq)) + 1]

OddLabels == <<"positive", "POSITIVE", "positive", "Positive", "negative", "neutral">>
OddScores == <<70, 90, 60, 90, 95, 50>>
EvenLabels == <<"positive", "negative", "NEGATIVE", "negative", "Neutral", "positive">>
EvenScores == <<80, 99, 85, 80, 60, 70>>

\* sentiment_model.pipeline(text)[0]: a function of the text, label and score in
\* hundredths; on the last article of symbol 2 the model raises.
SentimentPipeline(headline) ==
  LET symbol == headline \div 1000
      k == headline % 1000
  IN  [raises |-> symbol = 2 /\ k = MaxArticles,
       label |-> Cycle(IF symbol % 2 = 1 THEN OddLabels ELSE EvenLabels, k),
       score |-> Cycle(IF symbol % 2 = 1 THEN OddScores ELSE EvenScores, k)]

\* str.lower() on the labels the model emits.
Lower(label) ==
  CASE label \in {"POSITIVE", "Positive"} -> "positive"
    [] label \in {"NEGATIVE", "Negative"} -> "negative"
    [] label \in {"NEUTRAL", "Neutral"} -> "neutral"
    [] OTHER -> label

\* NULL in news_articles.sentiment_label.
NoLabel == "null"

\* The loop of fetch_stock_news: an article whose (symbol, url) is not among the
\* committed rows is added (the session does not autoflush).
RECURSIVE PendingNews(_, _, _, _)
PendingNews(db, symbol, target_date, articles) ==
  IF articles = <<>> THEN <<>>
  ELSE LET article == Head(articles)
           rest == PendingNews(db, symbol, target_date, Tail(articles))
       IN  IF \E i \in DOMAIN db.newsArticles :
                /\ db.newsArticles[i].symbol = symbol
                /\ db.newsArticles[i].url = article.url
           THEN rest
           ELSE <<[symbol |-> symbol, date |-> target_date,
                   headline |-> article.headline, url |-> article.url,
                   sentiment_label |-> NoLabel, sentiment_score |-> None,
                   is_top_headline |-> FALSE]>> \o rest

\* fetch_stock_news: `response` is what client.company_news gives.
fetch_stock_news(db, symbol, target_date, response) ==
  IF ~\E m \in db.marketMovers : m.symbol = symbol /\ m.date = target_date
  THEN [db |-> db, ret |-> <<>>]
  ELSE IF response.error
  THEN [db |-> db, ret |-> <<>>]
  ELSE [db |-> [db EXCEPT !.newsArticles =
                  @ \o PendingNews(db, symbol, target_date, response.articles)],
        ret |-> response.articles]

\* fetch_bulk_news_for_movers: responses[symbol] is what the provider gives.
RECURSIVE fetch_bulk_news_for_movers(_, _, _, _)
fetch_bulk_news_for_movers(db, report_date, movers, responses) ==
  IF movers = <<>> THEN [db |-> db, ret |-> 0]
  ELSE LET first == fetch_stock_news(db, Head(movers).symbol, report_date,
                                     responses[Head(movers).symbol])
           rest == fetch_bulk_news_for_movers(first.db, report_date, Tail(movers),
                                              responses)
       IN  [db |-> rest.db, ret |-> Len(first.ret) + rest.ret]

\* ------------------------------------------------------ sentiment alignment

\* A pass that scores every article again.
NeedsScoringAlways(a) == TRUE

\* "if article.sentiment_score is None"
NeedsScoring(a) == a.sentiment_score = None

\* The indices of the articles of the date that the scoring loop passes to the
\* pipeline, in query order, if no call raises.
ToScore(news, target_date) ==
  SelectSeq([i \in DOMAIN news |-> i],
            LAMBDA i : news[i].date = target_date /\ NeedsScoring(news[i]))

\* The scoring loop run to its end.
Scored(news, target_date) ==
  [i \in DOMAIN news |->
     IF news[i].date = target_date /\ NeedsScoring(news[i])
     THEN LET result == SentimentPipeline(news[i].headline)
          IN  [news[i] EXCEPT !.sentiment_label = Lower(result.label),
                              !.sentiment_score = result.score]
     ELSE news[i]]

Direction(mover) ==
  IF mover.percent_change > 0 THEN "positive"
  ELSE IF mover.percent_change < 0 THEN "negative"
  ELSE "none"

\* A filter that also drops the headlines already shown.
IsAlignedAndFresh(a, direction) ==
  a.sentiment_label = direction /\ ~a.is_top_headline

\* "a.sentiment_label == direction"
IsAligned(a, direction) == a.sentiment_label = direction

\* sorted(aligned_articles, key=sentiment_score, reverse=True) over indices of
\* `news`: descending and stable.
RECURSIVE SortByScore(_, _)
SortByScore(news, idx) ==
  IF idx = <<>> THEN <<>>
  ELSE LET n == Len(idx)
           sorted == SortByScore(news, SubSeq(idx, 1, n - 1))
           a == idx[n]
           k == Cardinality({j \in DOMAIN sorted :
                               news[sorted[j]].sentiment_score
                                 >= news[a].sentiment_score})
       IN  SubSeq(sorted, 1, k) \o <<a>> \o SubSeq(sorted, k + 1, Len(sorted))

TopHeadlines == 3

\* top_articles of a mover, as indices of `news`.
TopArticles(news, mover, target_date) ==
  LET aligned == SelectSeq([i \in DOMAIN news |-> i],
                           LAMBDA i : /\ news[i].date = target_date
                                      /\ news[i].symbol = mover.symbol
                                      /\ IsAligned(news[i], Direction(mover)))
      sorted == SortByScore(news, aligned)
  IN  SubSeq(sorted, 1, Min(TopHeadlines, Len(sorted)))

\* A pass that leaves the flags of earlier passes standing.
KeepFlag(a) == a.is_top_headline

\* "a.is_top_headline = False" for every article of the mover
ClearFlag(a) == FALSE

BestLast(top) == top[Len(top)]

\* best = top_articles[0]
Best(top) == top[1]

\* A pass that fills the fields of both directions.
WriteHeadlineBoth(mover, direction, best) ==
  [mover EXCEPT !.positive_headline = best.headline,
                !.positive_headline_score = best.sentiment_score,
                !.positive_headline_url = best.url,
                !.negative_headline = best.headline,
                !.negative_headline_score = best.sentiment_score,
                !.negative_headline_url = best.url]

\* The assignments under "if top_articles".
WriteHeadline(mover, direction, best) ==
  IF direction = "positive"
  THEN [mover EXCEPT !.positive_headline = best.headline,
                     !.positive_headline_score = best.sentiment_score,
                     !.positive_headline_url = best.url]
  ELSE IF direction = "negative"
  THEN [mover EXCEPT !.negative_headline = best.headline,
                     !.negative_headline_score = best.sentiment_score,
                     !.negative_headline_url = best.url]
  ELSE mover

\* The loop over the movers of the date: flags and headline fields.
Flagged(news, movers, target_date) ==
  [i \in DOMAIN news |->
     IF /\ news[i].date = target_date
        /\ \E m \in movers : /\ m.date = target_date /\ m.symbol = news[i].symbol
                             /\ Direction(m) # "none"
     THEN LET m == CHOOSE m \in movers : m.date = target_date /\ m.symbol = news[i].symbol
          IN  [news[i] EXCEPT !.is_top_headline =
                 IF i \in Range(TopArticles(news, m, target_date)) THEN TRUE
                 ELSE ClearFlag(news[i])]
     ELSE news[i]]

Headlined(news, movers, target_date) ==
  {IF m.date = target_date /\ Direction(m) # "none"
      /\ TopArticles(news, m, target_date) # <<>>
   THEN WriteHeadline(m, Direction(m), news[Best(TopArticles(news, m, target_date))])
   ELSE m : m \in movers}

\* analyze_sentiment_for_date. A pipeline call that raises ends the pass in the
\* except branch: rollback, nothing of the pass is stored.
analyze_sentiment_for_date(db, target_date) ==
  LET to_score == ToScore(db.newsArticles, target_date)
      raising == {j \in DOMAIN to_score :
                    SentimentPipeline(db.newsArticles[to_score[j]].headline).raises}
      classified == IF raising = {} THEN to_score
                    ELSE SubSeq(to_score, 1, CHOOSE j \in raising : \A h \in raising : j <= h)
      scored == Scored(db.newsArticles, target_date)
  IN  IF raising # {}
      THEN [db |-> db, raised |-> "Exception", classified |-> classified]
      ELSE [db |-> [db EXCEPT
                      !.newsArticles = Flagged(scored, db.marketMovers, target_date),
                      !.marketMovers = Headlined(scored, db.marketMovers, target_date)],
            raised |-> "none", classified |-> classified]

\* --------------------------------------------------------------- operations

Install(db) ==
  /\ constituents' = db.constituents
  /\ dailyPrices' = db.dailyPrices
  /\ indexSummaries' = db.indexSummaries
  /\ marketMovers' = db.marketMovers
  /\ dailyReports' = db.dailyReports
  /\ newsArticles' = db.newsArticles

EmptyDatabase ==
  /\ constituents = <<>>
  /\ dailyPrices = {}
  /\ indexSummaries = {}
  /\ marketMovers = {}
  /\ dailyReports = {}
  /\ newsArticles = <<>>
  /\ last = [op |-> "none"]
  /\ run = [pc |-> "idle"]

Init ==
  /\ tieAway \in BOOLEAN
  /\ NoApiTraffic
  /\ TOP_MOVERS_COUNT = 5
  /\ TEST_MODE = FALSE
  /\ TEST_STOCK_COUNT = 10
  /\ market \in Markets
  /\ EmptyDatabase

UpdateConstituents ==
  /\ \E loaded \in S3Loads :
       LET r == update_sp500_constituents(DB, loaded)
       IN  /\ Install(r.db)
           /\ last' = [op |-> "update_sp500_constituents", raised |-> r.raised,
                       ret |-> r.ret]
  /\ UNCHANGED <<finnhub_limiter, wrapper, clock, userSubscriptions, tieAway, TOP_MOVERS_COUNT, TEST_MODE, TEST_STOCK_COUNT, market, run>>

GetOrFetchIndexSummary ==
  /\ \E d \in Dates, spy_quote \in {market.spy, None} :
       LET r == get_or_fetch_index_summary(DB, d, spy_quote)
       IN  /\ Install(r.db)
           /\ last' = [op |-> "get_or_fetch_index_summary", date |-> d,
                       raised |-> r.raised, ret |-> r.ret, quoted |-> r.quoted]
  /\ UNCHANGED <<finnhub_limiter, wrapper, clock, userSubscriptions, tieAway, TOP_MOVERS_COUNT, TEST_MODE, TEST_STOCK_COUNT, market, run>>

SymbolSeq(cons) == [i \in DOMAIN cons |-> cons[i].symbol]

\* What the provider may answer during one fetch over `symbols`: the first k
\* only (k = Len: every symbol; less: an outage or the rate limit from there
\* on), or every symbol but the first (a missing quote or an error for it).
AnsweredChoices(symbols) ==
  {{symbols[i] : i \in 1..k} : k \in 0..Len(symbols)}
    \cup {{symbols[i] : i \in 2..Len(symbols)}}

\* fetch_daily_prices as the report calls it: every active constituent.
FetchDailyPrices ==
  /\ \E d \in Dates :
     LET symbols == SymbolSeq(ActiveConstituents(constituents))
     IN  \E answered \in AnsweredChoices(symbols) :
           LET r == fetch_daily_prices(DB, symbols, d, QuotesGiven(answered))
           IN  /\ Install(r.db)
               /\ last' = [op |-> "fetch_daily_prices", date |-> d,
                           raised |-> r.raised, ret |-> r.ret, prices |-> r.prices]
  /\ UNCHANGED <<finnhub_limiter, wrapper, clock, userSubscriptions, tieAway, TOP_MOVERS_COUNT, TEST_MODE, TEST_STOCK_COUNT, market, run>>

RankingCall(d, r) ==
  [op |-> "identify_top_movers", date |-> d, gainers |-> r.gainers,
   losers |-> r.losers, error |-> r.error, index_level |-> r.index_level,
   refreshed |-> r.refreshed, movers |-> r.movers]

IdentifyTopMovers ==
  /\ \E d \in Dates, loaded \in S3Loads :
       LET r == identify_top_movers(DB, d, loaded)
       IN  /\ Install(r.db)
           /\ last' = RankingCall(d, r)
  /\ UNCHANGED <<finnhub_limiter, wrapper, clock, userSubscriptions, tieAway, TOP_MOVERS_COUNT, TEST_MODE, TEST_STOCK_COUNT, market, run>>

Next ==
  \/ UpdateConstituents
  \/ GetOrFetchIndexSummary
  \/ FetchDailyPrices
  \/ IdentifyTopMovers

Spec == Init /\ [][Next]_vars

\* ------------------------------------------------- calls as the quotes move

\* The provider's quotes move between two calls: a later call for the same
\* symbol or for SPY is answered differently.
QuotesMove ==
  /\ market' \in {RallyMarket, SelloffMarket} \ {market}
  /\ UNCHANGED <<finnhub_limiter, wrapper, clock, userSubscriptions, tieAway, TOP_MOVERS_COUNT, TEST_MODE, TEST_STOCK_COUNT, constituents,
                 dailyPrices, indexSummaries, marketMovers, dailyReports,
                 newsArticles, last, run>>

EmptyTables ==
  [constituents |-> <<>>, dailyPrices |-> {}, indexSummaries |-> {},
   marketMovers |-> {}, dailyReports |-> {}, newsArticles |-> <<>>]

\* The registry loaded from the full list, nothing else stored yet.
LoadedRegistry ==
  update_sp500_constituents(EmptyTables, [error |-> FALSE, data |-> FullList]).db

InitQuotes ==
  /\ tieAway = FALSE
  /\ NoApiTraffic
  /\ TOP_MOVERS_COUNT = 5
  /\ TEST_MODE = FALSE
  /\ TEST_STOCK_COUNT = 10
  /\ market = RallyMarket
  /\ constituents = LoadedRegistry.constituents
  /\ dailyPrices = {}
  /\ indexSummaries = {}
  /\ marketMovers = {}
  /\ dailyReports = {}
  /\ newsArticles = <<>>
  /\ last = [op |-> "none"]
  /\ run = [pc |-> "idle"]

NextQuotes ==
  \/ GetOrFetchIndexSummary
  \/ FetchDailyPrices
  \/ QuotesMove

SpecQuotes == InitQuotes /\ [][NextQuotes]_vars

\* ---------------------------------------------------- news and sentiment calls

\* The tables a first ranking of date d leaves: the full list loaded, the index
\* summary stored, every constituent's price fetched, the movers ranked.
RankedDay(d) ==
  LET loaded == [error |-> FALSE, data |-> FullList]
      registry == update_sp500_constituents(EmptyTables, loaded).db
      summary == get_or_fetch_index_summary(registry, d, market.spy).db
      symbols == SymbolSeq(ActiveConstituents(registry.constituents))
      priced == fetch_daily_prices(summary, symbols, d, QuotesGiven(Range(symbols))).db
  IN  identify_top_movers(priced, d, loaded).db

InitNews ==
  /\ tieAway = FALSE
  /\ NoApiTraffic
  /\ TOP_MOVERS_COUNT = 5
  /\ TEST_MODE = FALSE
  /\ TEST_STOCK_COUNT = 10
  /\ market = MixedMarket
  /\ \E d \in Dates :
       LET db == RankedDay(d)
       IN  /\ constituents = db.constituents
           /\ dailyPrices = db.dailyPrices
           /\ indexSummaries = db.indexSummaries
           /\ marketMovers = db.marketMovers
           /\ dailyReports = db.dailyReports
           /\ newsArticles = db.newsArticles
  /\ last = [op |-> "none"]
  /\ run = [pc |-> "idle"]

FetchStockNews ==
  /\ \E d \in Dates, symbol \in Symbols :
       \E response \in NewsResponses(symbol) :
         LET r == fetch_stock_news(DB, symbol, d, response)
         IN  /\ Install(r.db)
             /\ last' = [op |-> "fetch_stock_news", date |-> d]
  /\ UNCHANGED <<finnhub_limiter, wrapper, clock, userSubscriptions, tieAway, TOP_MOVERS_COUNT, TEST_MODE, TEST_STOCK_COUNT, market, run>>

\* last.classified: the urls of the articles passed to the pipeline, in order.
AnalyzeSentiment ==
  /\ \E d \in Dates :
       LET r == analyze_sentiment_for_date(DB, d)
       IN  /\ Install(r.db)
           /\ last' = [op |-> "analyze_sentiment_for_date", date |-> d,
                       raised |-> r.raised,
                       classified |-> [j \in DOMAIN r.classified |->
                                         newsArticles[r.classified[j]].url]]
  /\ UNCHANGED <<finnhub_limiter, wrapper, clock, userSubscriptions, tieAway, TOP_MOVERS_COUNT, TEST_MODE, TEST_STOCK_COUNT, market, run>>

NextNews ==
  \/ FetchStockNews
  \/ AnalyzeSentiment

SpecNews == InitNews /\ [][NextNews]_vars

\* ------------------------------------------------- news with repeated urls

\* A response in which the provider lists its first article a second time, after
\* the k articles it has.
RepeatingResponses(symbol) ==
  {[error |-> FALSE,
    articles |-> Append(SubSeq(NewsFeed(symbol), 1, k), NewsFeed(symbol)[1])] :
     k \in 1..Len(NewsFeed(symbol))}

FetchRepeatingNews ==
  /\ \E d \in Dates, symbol \in Symbols :
       \E response \in RepeatingResponses(symbol) :
         LET r == fetch_stock_news(DB, symbol, d, response)
         IN  /\ Install(r.db)
             /\ last' = [op |-> "fetch_stock_news", date |-> d]
  /\ UNCHANGED <<finnhub_limiter, wrapper, clock, userSubscriptions, tieAway, TOP_MOVERS_COUNT, TEST_MODE, TEST_STOCK_COUNT, market, run>>

NextFeed ==
  \/ FetchStockNews
  \/ FetchRepeatingNews

SpecFeed == InitNews /\ [][NextFeed]_vars

\* --------------------------------------------------------- report pipeline

\* generate_and_send_report, one step per call it makes (each call commits on its
\* own). run.clean: no collaborator failed so far in this run; run.changed: a
\* step of this run changed the registry, the index summary or the prices;
\* run.had_movers: mover records of the date existed when the run started.
Finish(result) == [run EXCEPT !.pc = "done", !.result = result]

\* Entry: check_s3_data_exists, then the existing-report check.
StartReport ==
  /\ run.pc \in {"idle", "done"}
  /\ \E d \in Dates, s3_exists \in BOOLEAN :
       LET fresh == [pc |-> "update", date |-> d, clean |-> s3_exists,
                     changed |-> FALSE, result |-> FALSE,
                     had_movers |-> \E m \in marketMovers : m.date = d,
                     gainers |-> <<>>, losers |-> <<>>,
                     attempted |-> {}, stages |-> <<>>]
           started == [fresh EXCEPT !.stages = <<"registry">>]
       IN  run' = IF ~s3_exists THEN [fresh EXCEPT !.pc = "done"]
                  ELSE IF \E r \in dailyReports : r.date = d
                  THEN [fresh EXCEPT !.pc = "done", !.result = TRUE]
                  ELSE started
  /\ UNCHANGED <<finnhub_limiter, wrapper, clock, userSubscriptions, tieAway, TOP_MOVERS_COUNT, TEST_MODE, TEST_STOCK_COUNT, market,
                 constituents, dailyPrices, indexSummaries, marketMovers, dailyReports, newsArticles, last>>

\* update_sp500_constituents(db, report_date); its RuntimeError is not the
\* ValueError caught here, so it reaches the outer except.
ReportUpdateConstituents ==
  /\ run.pc = "update"
  /\ \E loaded \in S3Loads :
       LET r == update_sp500_constituents(DB, loaded)
       IN  /\ Install(r.db)
           /\ last' = [op |-> "update_sp500_constituents", raised |-> r.raised,
                       ret |-> r.ret]
           /\ run' = IF r.raised # "none"
                     THEN [Finish(FALSE) EXCEPT !.clean = FALSE]
                     ELSE [run EXCEPT !.pc = "index",
                                      !.stages = Append(@, "index"),
                                      !.changed = @ \/ r.db # DB]
  /\ UNCHANGED <<finnhub_limiter, wrapper, clock, userSubscriptions, tieAway, TOP_MOVERS_COUNT, TEST_MODE, TEST_STOCK_COUNT, market>>

ReportIndexSummary ==
  /\ run.pc = "index"
  /\ \E spy_quote \in {market.spy, None} :
       LET r == get_or_fetch_index_summary(DB, run.date, spy_quote)
       IN  /\ Install(r.db)
           /\ last' = [op |-> "get_or_fetch_index_summary", date |-> run.date,
                       raised |-> r.raised, ret |-> r.ret]
           /\ run' = IF r.raised # "none"
                     THEN [Finish(FALSE) EXCEPT !.clean = FALSE]
                     ELSE [run EXCEPT !.pc = "fetch",
                                      !.stages = Append(@, "prices"),
                                      !.changed = @ \/ r.db # DB]
  /\ UNCHANGED <<finnhub_limiter, wrapper, clock, userSubscriptions, tieAway, TOP_MOVERS_COUNT, TEST_MODE, TEST_STOCK_COUNT, market>>

\* A run that fetches the first active constituent only.
SymbolsToFetchFirstOnly(all_constituents) ==
  SymbolSeq(SubSeq(all_constituents, 1, Min(1, Len(all_constituents))))

\* symbols: every active constituent, or in TEST_MODE the first TEST_STOCK_COUNT.
SymbolsToFetch(all_constituents) ==
  IF TEST_MODE
  THEN SymbolSeq(SubSeq(all_constituents, 1,
                        Min(TEST_STOCK_COUNT, Len(all_constituents))))
  ELSE SymbolSeq(all_constituents)

ReportFetchPrices ==
  /\ run.pc = "fetch"
  /\ LET symbols == SymbolsToFetch(ActiveConstituents(constituents))
     IN  \E answered \in AnsweredChoices(symbols) :
           LET r == fetch_daily_prices(DB, symbols, run.date, QuotesGiven(answered))
           IN  /\ Install(r.db)
               /\ last' = [op |-> "fetch_daily_prices", date |-> run.date,
                           raised |-> r.raised, ret |-> r.ret]
               /\ run' = IF r.raised # "none"
                         THEN Finish(FALSE)
                         ELSE [run EXCEPT !.pc = "rank",
                                          !.attempted = Range(symbols),
                                          !.stages = Append(@, "ranking"),
                                          !.clean = @ /\ answered = Range(symbols),
                                          !.changed = @ \/ r.db # DB]
  /\ UNCHANGED <<finnhub_limiter, wrapper, clock, userSubscriptions, tieAway, TOP_MOVERS_COUNT, TEST_MODE, TEST_STOCK_COUNT, market>>

\* identify_top_movers, then "if not (gainers or losers): return False".
ReportIdentifyTopMovers ==
  /\ run.pc = "rank"
  /\ \E loaded \in S3Loads :
       LET r == identify_top_movers(DB, run.date, loaded)
       IN  /\ Install(r.db)
           /\ last' = RankingCall(run.date, r)
           /\ run' = IF r.gainers = <<>> /\ r.losers = <<>>
                     THEN [Finish(FALSE) EXCEPT
                             !.clean = @ /\ ~(r.refreshed /\ loaded.error)]
                     ELSE [run EXCEPT !.pc = "news", !.gainers = r.gainers,
                                      !.stages = Append(@, "news"),
                                      !.losers = r.losers]
  /\ UNCHANGED <<finnhub_limiter, wrapper, clock, userSubscriptions, tieAway, TOP_MOVERS_COUNT, TEST_MODE, TEST_STOCK_COUNT, market>>

\* fetch_bulk_news_for_movers(db, report_date, gainers + losers): the provider
\* is up and sends the news of the day, or down.
ReportFetchNews ==
  /\ run.pc = "news"
  /\ \E up \in BOOLEAN :
       LET responses == [s \in Symbols |->
                          IF up THEN [error |-> FALSE, articles |-> NewsFeed(s)]
                          ELSE NewsError]
           r == fetch_bulk_news_for_movers(DB, run.date, run.gainers \o run.losers,
                                           responses)
       IN  /\ Install(r.db)
           /\ last' = [op |-> "fetch_bulk_news_for_movers", date |-> run.date]
           /\ run' = [run EXCEPT !.pc = "sentiment",
                                 !.stages = Append(@, "sentiment")]
  /\ UNCHANGED <<finnhub_limiter, wrapper, clock, userSubscriptions, tieAway, TOP_MOVERS_COUNT, TEST_MODE, TEST_STOCK_COUNT, market>>

\* analyze_sentiment_for_date(db, report_date): it catches what it raises.
ReportAnalyzeSentiment ==
  /\ run.pc = "sentiment"
  /\ LET r == analyze_sentiment_for_date(DB, run.date)
     IN  /\ Install(r.db)
         /\ last' = [op |-> "analyze_sentiment_for_date", date |-> run.date,
                     raised |-> r.raised,
                     classified |-> [j \in DOMAIN r.classified |->
                                       newsArticles[r.classified[j]].url]]
         /\ run' = [run EXCEPT !.pc = "render"]
  /\ UNCHANGED <<finnhub_limiter, wrapper, clock, userSubscriptions, tieAway, TOP_MOVERS_COUNT, TEST_MODE, TEST_STOCK_COUNT, market>>

\* generate_html_report and the recipients query: they return, or one raises
\* into the outer except, which rolls back and returns False.
ReportRender ==
  /\ run.pc = "render"
  /\ \E rendered \in BOOLEAN :
       run' = IF rendered THEN [run EXCEPT !.pc = "store"]
              ELSE [Finish(FALSE) EXCEPT !.clean = FALSE]
  /\ UNCHANGED <<finnhub_limiter, wrapper, clock, userSubscriptions, tieAway, TOP_MOVERS_COUNT, TEST_MODE, TEST_STOCK_COUNT, market,
                 constituents, dailyPrices, indexSummaries, marketMovers, dailyReports, newsArticles, last>>

\* db.add(report); db.commit(); the e-mail result does not change the return.
ReportStore ==
  /\ run.pc = "store"
  /\ LET report == [date |-> run.date]
     IN  IF DailyReportConstraint(dailyReports, <<report>>)
         THEN /\ dailyReports' = dailyReports \cup {report}
              /\ run' = Finish(TRUE)
         ELSE /\ dailyReports' = dailyReports
              /\ run' = Finish(FALSE)
  /\ UNCHANGED <<finnhub_limiter, wrapper, clock, userSubscriptions, tieAway, TOP_MOVERS_COUNT, TEST_MODE, TEST_STOCK_COUNT, market,
                 constituents, dailyPrices, indexSummaries, marketMovers, newsArticles, last>>

TopMoversCounts == {3, 5}

\* The settings a deployment runs with: the defaults of TEST_MODE and
\* TEST_STOCK_COUNT with either TOP_MOVERS_COUNT, or a test run of two stocks.
Configs ==
  {[TOP_MOVERS_COUNT |-> n, TEST_MODE |-> FALSE, TEST_STOCK_COUNT |-> 10] :
     n \in TopMoversCounts}
    \cup {[TOP_MOVERS_COUNT |-> 5, TEST_MODE |-> TRUE, TEST_STOCK_COUNT |-> 2]}

InitReport ==
  /\ tieAway = FALSE
  /\ NoApiTraffic
  /\ \E config \in Configs :
       /\ TOP_MOVERS_COUNT = config.TOP_MOVERS_COUNT
       /\ TEST_MODE = config.TEST_MODE
       /\ TEST_STOCK_COUNT = config.TEST_STOCK_COUNT
  /\ market \in {RallyMarket, MixedMarket}
  /\ EmptyDatabase

NextReport ==
  \/ StartReport
  \/ ReportUpdateConstituents
  \/ ReportIndexSummary
  \/ ReportFetchPrices
  \/ ReportIdentifyTopMovers
  \/ ReportFetchNews
  \/ ReportAnalyzeSentiment
  \/ ReportRender
  \/ ReportStore

SpecReport == InitReport /\ [][NextReport]_vars

\* --------------------------------------------------------- concurrent runs

\* The runs of generate_and_send_report for one date: the scheduler's job and a
\* manually triggered background task, each with a session of its own. In this
\* section `run` holds one record per run; a step is one call of the run, whose
\* commit the database orders against the other run's. run[i].sends counts the
\* times run i had send_report deliver the report to subscribers.
Runs == {"scheduler", "manual"}

IdleRuns == [i \in Runs |-> [pc |-> "idle", date |-> "d1", gainers |-> <<>>,
                             losers |-> <<>>, result |-> FALSE, sends |-> 0]]

RunTo(i, pc) == [run EXCEPT ![i].pc = pc]

RunDone(i, result) == [run EXCEPT ![i].pc = "done", ![i].result = result]

\* Entry of a run; a finished run may be triggered again. The report of the date
\* exists: return True.
RunStart(i) ==
  /\ run[i].pc \in {"idle", "done"}
  /\ \E d \in Dates :
       run' = IF \E r \in dailyReports : r.date = d
              THEN [run EXCEPT ![i].pc = "done", ![i].date = d, ![i].result = TRUE]
              ELSE [run EXCEPT ![i].pc = "update", ![i].date = d,
                               ![i].gainers = <<>>, ![i].losers = <<>>,
                               ![i].result = FALSE]
  /\ UNCHANGED <<finnhub_limiter, wrapper, clock, userSubscriptions, tieAway, TOP_MOVERS_COUNT, TEST_MODE, TEST_STOCK_COUNT, market,
                 constituents, dailyPrices, indexSummaries, marketMovers,
                 dailyReports, newsArticles, last>>

RunUpdateConstituents(i) ==
  /\ run[i].pc = "update"
  /\ \E loaded \in {[error |-> FALSE, data |-> FullList], S3Error} :
       LET r == update_sp500_constituents(DB, loaded)
       IN  /\ Install(r.db)
           /\ last' = [op |-> "update_sp500_constituents", by |-> i]
           /\ run' = IF r.raised # "none" THEN RunDone(i, FALSE)
                     ELSE RunTo(i, "index")
  /\ UNCHANGED <<finnhub_limiter, wrapper, clock, userSubscriptions, tieAway, TOP_MOVERS_COUNT, TEST_MODE, TEST_STOCK_COUNT, market>>

RunIndexSummary(i) ==
  /\ run[i].pc = "index"
  /\ LET r == get_or_fetch_index_summary(DB, run[i].date, market.spy)
     IN  /\ Install(r.db)
         /\ last' = [op |-> "get_or_fetch_index_summary", by |-> i]
         /\ run' = IF r.raised # "none" THEN RunDone(i, FALSE)
                   ELSE RunTo(i, "fetch")
  /\ UNCHANGED <<finnhub_limiter, wrapper, clock, userSubscriptions, tieAway, TOP_MOVERS_COUNT, TEST_MODE, TEST_STOCK_COUNT, market>>

\* What the provider answers during a run's fetch: every symbol, or, rate
\* limited by the other run's calls, the last one only.
RunAnswers(symbols) ==
  {Range(symbols), {symbols[i] : i \in {Len(symbols)} \cap DOMAIN symbols}}

RunFetchPrices(i) ==
  /\ run[i].pc = "fetch"
  /\ LET symbols == SymbolsToFetch(ActiveConstituents(constituents))
     IN  \E answered \in RunAnswers(symbols) :
           LET r == fetch_daily_prices(DB, symbols, run[i].date, QuotesGiven(answered))
           IN  /\ Install(r.db)
               /\ last' = [op |-> "fetch_daily_prices", by |-> i]
               /\ run' = IF r.raised # "none" THEN RunDone(i, FALSE)
                         ELSE RunTo(i, "rank")
  /\ UNCHANGED <<finnhub_limiter, wrapper, clock, userSubscriptions, tieAway, TOP_MOVERS_COUNT, TEST_MODE, TEST_STOCK_COUNT, market>>

RunIdentifyTopMovers(i) ==
  /\ run[i].pc = "rank"
  /\ LET r == identify_top_movers(DB, run[i].date, [error |-> FALSE, data |-> FullList])
     IN  /\ Install(r.db)
         /\ last' = [op |-> "identify_top_movers", by |-> i]
         /\ run' = IF r.gainers = <<>> /\ r.losers = <<>>
                   THEN RunDone(i, FALSE)
                   ELSE [run EXCEPT ![i].pc = "news", ![i].gainers = r.gainers,
                                    ![i].losers = r.losers]
  /\ UNCHANGED <<finnhub_limiter, wrapper, clock, userSubscriptions, tieAway, TOP_MOVERS_COUNT, TEST_MODE, TEST_STOCK_COUNT, market>>

\* fetch_bulk_news_for_movers, then analyze_sentiment_for_date: neither raises
\* into the run.
RunNewsAndSentiment(i) ==
  /\ run[i].pc = "news"
  /\ LET responses == [s \in Symbols |-> [error |-> FALSE, articles |-> NewsFeed(s)]]
         fetched == fetch_bulk_news_for_movers(DB, run[i].date,
                                               run[i].gainers \o run[i].losers,
                                               responses)
         r == analyze_sentiment_for_date(fetched.db, run[i].date)
     IN  /\ Install(r.db)
         /\ last' = [op |-> "analyze_sentiment_for_date", by |-> i]
         /\ run' = RunTo(i, "store")
  /\ UNCHANGED <<finnhub_limiter, wrapper, clock, userSubscriptions, tieAway, TOP_MOVERS_COUNT, TEST_MODE, TEST_STOCK_COUNT, market>>

\* db.add(report); db.commit(): the commit that loses to a report of the date
\* already committed raises into the outer except, which returns False.
RunStore(i) ==
  /\ run[i].pc = "store"
  /\ LET report == [date |-> run[i].date, id |-> Cardinality(dailyReports) + 1]
     IN  IF DailyReportConstraint(dailyReports, <<report>>)
         THEN /\ dailyReports' = dailyReports \cup {report}
              /\ run' = RunTo(i, "email")
         ELSE /\ dailyReports' = dailyReports
              /\ run' = RunDone(i, FALSE)
  /\ UNCHANGED <<finnhub_limiter, wrapper, clock, userSubscriptions, tieAway, TOP_MOVERS_COUNT, TEST_MODE, TEST_STOCK_COUNT, market,
                 constituents, dailyPrices, indexSummaries, marketMovers,
                 newsArticles, last>>

\* "if not TEST_MODE: send_report(...)": the report goes out to the subscribers,
\* or no message is accepted; the run returns True either way.
RunSendReport(i) ==
  /\ run[i].pc = "email"
  /\ \E delivered \in BOOLEAN :
       run' = [run EXCEPT ![i].pc = "done", ![i].result = TRUE,
                          ![i].sends = IF delivered /\ ~TEST_MODE THEN @ + 1 ELSE @]
  /\ UNCHANGED <<finnhub_limiter, wrapper, clock, userSubscriptions, tieAway, TOP_MOVERS_COUNT, TEST_MODE, TEST_STOCK_COUNT, market,
                 constituents, dailyPrices, indexSummaries, marketMovers,
                 dailyReports, newsArticles, last>>

InitRuns ==
  /\ tieAway = FALSE
  /\ NoApiTraffic
  /\ TOP_MOVERS_COUNT = 5
  /\ TEST_MODE = FALSE
  /\ TEST_STOCK_COUNT = 10
  /\ market = RallyMarket
  /\ constituents = <<>>
  /\ dailyPrices = {}
  /\ indexSummaries = {}
  /\ marketMovers = {}
  /\ dailyReports = {}
  /\ newsArticles = <<>>
  /\ last = [op |-> "none"]
  /\ run = IdleRuns

NextRuns ==
  \E i \in Runs :
    \/ RunStart(i)
    \/ RunUpdateConstituents(i)
    \/ RunIndexSummary(i)
    \/ RunFetchPrices(i)
    \/ RunIdentifyTopMovers(i)
    \/ RunNewsAndSentiment(i)
    \/ RunStore(i)
    \/ RunSendReport(i)

SpecRuns == InitRuns /\ [][NextRuns]_vars

\* ------------------------------------------------------------ rate limiter

LimiterOnly ==
  UNCHANGED <<tieAway, TOP_MOVERS_COUNT, TEST_MODE, TEST_STOCK_COUNT, market,
              constituents, dailyPrices, indexSummaries, marketMovers, dailyReports,
              newsArticles, last, run, userSubscriptions>>

\* wrapper, lines 22-38: elapsed is computed from one read of last_call_time;
\* the caller sleeps for the rest of the interval or goes on at once.
EnterWrapper(c) ==
  /\ wrapper[c].pc = "idle"
  /\ LET elapsed == clock.now - finnhub_limiter.last_call_time
     IN  wrapper' =
           IF elapsed < rate_limit_seconds
           THEN [wrapper EXCEPT ![c].pc = "sleep",
                                ![c].wake = clock.now + (rate_limit_seconds - elapsed)]
           ELSE [wrapper EXCEPT ![c].pc = "ready"]
  /\ UNCHANGED <<finnhub_limiter, clock>>
  /\ LimiterOnly

\* time.sleep(wait_time) returns once the time has passed.
Wake(c) ==
  /\ wrapper[c].pc = "sleep"
  /\ clock.now >= wrapper[c].wake
  /\ wrapper' = [wrapper EXCEPT ![c].pc = "ready"]
  /\ UNCHANGED <<finnhub_limiter, clock>>
  /\ LimiterOnly

\* result = func(*args, **kwargs) begins; clock.gap is the time since the
\* underlying call before it ended.
BeginCall(c) ==
  /\ wrapper[c].pc = "ready"
  /\ wrapper' = [wrapper EXCEPT ![c].pc = "calling"]
  /\ clock' = [clock EXCEPT !.gap = IF clock.ended = None THEN None
                                    ELSE clock.now - clock.ended]
  /\ UNCHANGED finnhub_limiter
  /\ LimiterOnly

\* func returns or raises: last_call_time = time.time() on both paths.
EndCall(c) ==
  /\ wrapper[c].pc = "calling"
  /\ \E outcome \in {"returned", "raised"} :
       wrapper' = [wrapper EXCEPT ![c].pc = "idle", ![c].outcome = outcome]
  /\ finnhub_limiter' = [finnhub_limiter EXCEPT !.last_call_time = clock.now]
  /\ clock' = [clock EXCEPT !.ended = clock.now]
  /\ LimiterOnly

\* A second passes.
Tick ==
  /\ clock.now < MaxTime
  /\ clock' = [clock EXCEPT !.now = @ + 1]
  /\ UNCHANGED <<finnhub_limiter, wrapper>>
  /\ LimiterOnly

InitLimiter ==
  /\ tieAway = FALSE
  /\ NoApiTraffic
  /\ TOP_MOVERS_COUNT = 5
  /\ TEST_MODE = FALSE
  /\ TEST_STOCK_COUNT = 10
  /\ market = RallyMarket
  /\ EmptyDatabase

NextLimiter ==
  \/ Tick
  \/ \E c \in Callers :
       \/ EnterWrapper(c)
       \/ Wake(c)
       \/ BeginCall(c)
       \/ EndCall(c)

SpecLimiter == InitLimiter /\ [][NextLimiter]_vars

\* ----------------------------------------------------------- subscriptions

Emails == {"ann@example.com", "bob@example.com"}
Timezones == {"America/New_York", "Europe/Paris"}

\* filter_by(email=email).first(): the index of the first row, 0 if there is none.
FirstByEmail(subs, email) ==
  IF \E i \in DOMAIN subs : subs[i].email = email
  THEN CHOOSE i \in DOMAIN subs :
         /\ subs[i].email = email
         /\ \A j \in DOMAIN subs : subs[j].email = email => i <= j
  ELSE 0

\* A check that takes every stored subscription for a cancelled one.
NeverSubscribed(existing) == FALSE

\* "if existing.send_daily_report"
AlreadySubscribed(existing) == existing.send_daily_report

\* db_safe_execute(db, operation): the operation's HTTPException passes through
\* with nothing written; a commit that fails is rolled back and answered 500.
db_safe_execute(subs, outcome, commit_ok) ==
  IF outcome.status # 200 THEN [subs |-> subs, status |-> outcome.status]
  ELSE IF ~commit_ok THEN [subs |-> subs, status |-> 500]
  ELSE [subs |-> outcome.subs, status |-> 200]

perform_subscription(subs, email, timezone) ==
  LET i == FirstByEmail(subs, email)
  IN  IF i # 0
      THEN IF AlreadySubscribed(subs[i])
           THEN [subs |-> subs, status |-> 400]
           ELSE [subs |-> [subs EXCEPT ![i].send_daily_report = TRUE,
                                       ![i].timezone = timezone],
                 status |-> 200]
      ELSE [subs |-> Append(subs, [email |-> email, timezone |-> timezone,
                                   send_daily_report |-> TRUE]),
            status |-> 200]

perform_unsubscribe(subs, email) ==
  LET i == FirstByEmail(subs, email)
  IN  IF i = 0 THEN [subs |-> subs, status |-> 404]
      ELSE [subs |-> [subs EXCEPT ![i].send_daily_report = FALSE], status |-> 200]

subscribe(subs, email, timezone, commit_ok) ==
  db_safe_execute(subs, perform_subscription(subs, email, timezone), commit_ok)

unsubscribe(subs, email, commit_ok) ==
  db_safe_execute(subs, perform_unsubscribe(subs, email), commit_ok)

\* last.accepted[email]: the last request for the email answered 200, "none"
\* before the first.
Accepted ==
  IF last.op \in {"subscribe", "unsubscribe"} THEN last.accepted
  ELSE [e \in Emails |-> "none"]

Answered(op, email, r) ==
  [op |-> op, email |-> email, status |-> r.status,
   accepted |-> IF r.status = 200 THEN [Accepted EXCEPT ![email] = op] ELSE Accepted]

SubscriptionsOnly ==
  UNCHANGED <<tieAway, TOP_MOVERS_COUNT, TEST_MODE, TEST_STOCK_COUNT, market,
              constituents, dailyPrices, indexSummaries, marketMovers, dailyReports,
              newsArticles, run, finnhub_limiter, wrapper, clock>>

Subscribe ==
  /\ \E email \in Emails, timezone \in Timezones, commit_ok \in BOOLEAN :
       LET r == subscribe(userSubscriptions, email, timezone, commit_ok)
       IN  /\ userSubscriptions' = r.subs
           /\ last' = Answered("subscribe", email, r)
  /\ SubscriptionsOnly

Unsubscribe ==
  /\ \E email \in Emails, commit_ok \in BOOLEAN :
       LET r == unsubscribe(userSubscriptions, email, commit_ok)
       IN  /\ userSubscriptions' = r.subs
           /\ last' = Answered("unsubscribe", email, r)
  /\ SubscriptionsOnly

NextSubscriptions ==
  \/ Subscribe
  \/ Unsubscribe

InitSubscriptions ==
  /\ tieAway = FALSE
  /\ NoApiTraffic
  /\ TOP_MOVERS_COUNT = 5
  /\ TEST_MODE = FALSE
  /\ TEST_STOCK_COUNT = 10
  /\ market = RallyMarket
  /\ EmptyDatabase

SpecSubscriptions == InitSubscriptions /\ [][NextSubscriptions]_vars

\* -------------------------------------------------------------- properties

\* C1: calculate_index_impact returns ((weight * percent_change) / 100 *
\* index_level) / 100 rounded to the nearest hundredth for every numeric input,
\* negative ones included; it is 0 when percent_change is 0 and 4.50 for weight
\* 6.0, percent_change 1.5, index level 5000.
C1_ImpactFormula ==
  last.op = "calculate_index_impact" =>
    /\ 2 * Abs(last.weight * last.percent_change * last.index_level
               - 400 * last.result) <= 400
    /\ (last.percent_change = 0 => last.result = 0)
    /\ (last.weight = 12 /\ last.percent_change = 3 /\ last.index_level = 5000
          => last.result = 450)

C1_Witness ==
  /\ last.op = "calculate_index_impact"
  /\ last.weight < 0 /\ last.percent_change < 0 /\ last.index_level = 5000
  /\ last.result > 0

SortedByMagnitude(seq) ==
  \A i \in 1..(Len(seq) - 1) :
    Abs(seq[i].index_points_contribution) >= Abs(seq[i + 1].index_points_contribution)

\* C2: identify_top_movers sorts the candidates by the absolute value of their
\* index point contribution, largest first, before it partitions and truncates
\* them; the gainers list and the losers list it returns are non-increasing in
\* absolute contribution.
C2_SortedByAbsImpact ==
  last.op = "identify_top_movers" =>
    /\ SortedByMagnitude(last.movers)
    /\ SortedByMagnitude(last.gainers)
    /\ SortedByMagnitude(last.losers)

\* A ranking that had to reorder: its top gainer comes later in query order and
\* has the strictly larger contribution.
C2_Witness ==
  /\ last.op = "identify_top_movers" /\ last.error = "none"
  /\ Len(last.gainers) >= 3
  /\ last.gainers[1].symbol > last.gainers[2].symbol
  /\ last.gainers[1].index_points_contribution
       > last.gainers[2].index_points_contribution

\* C3: every returned gainer has percent_change > 0, every returned loser has
\* percent_change < 0, and a candidate whose percent_change is 0 is in neither
\* list.
C3_SignPartition ==
  last.op = "identify_top_movers" =>
    /\ \A i \in DOMAIN last.gainers : last.gainers[i].percent_change > 0
    /\ \A i \in DOMAIN last.losers : last.losers[i].percent_change < 0
    /\ \A i \in DOMAIN last.movers :
         last.movers[i].percent_change = 0 =>
           /\ \A j \in DOMAIN last.gainers : last.gainers[j].symbol # last.movers[i].symbol
           /\ \A j \in DOMAIN last.losers : last.losers[j].symbol # last.movers[i].symbol

\* A ranking with a gainer, a loser and an unchanged stock among its candidates.
C3_Witness ==
  /\ last.op = "identify_top_movers" /\ last.error = "none"
  /\ last.gainers # <<>> /\ last.losers # <<>>
  /\ \E i \in DOMAIN last.movers : last.movers[i].percent_change = 0

\* C4: neither returned list is longer than the configured top-N
\* (TOP_MOVERS_COUNT); a different configured value truncates differently.
C4_ConfiguredTopN ==
  last.op = "identify_top_movers" =>
    /\ Len(last.gainers) <= TOP_MOVERS_COUNT
    /\ Len(last.losers) <= TOP_MOVERS_COUNT

\* C5: after a successful ranking of a date the persisted gainers carry the ranks
\* 1..G in the order of the returned gainers list, the persisted losers carry
\* -1..-L in the order of the returned losers list, and no two mover records of
\* the date share a rank.
C5_RanksDistinct ==
  (last.op = "identify_top_movers" /\ last.error = "none") =>
    /\ \A i \in DOMAIN last.gainers :
         \E m \in marketMovers :
           /\ m.date = last.date /\ m.symbol = last.gainers[i].symbol /\ m.rank = i
    /\ \A i \in DOMAIN last.losers :
         \E m \in marketMovers :
           /\ m.date = last.date /\ m.symbol = last.losers[i].symbol /\ m.rank = 0 - i
    /\ \A m, n \in marketMovers :
         (m.date = last.date /\ n.date = last.date /\ m.rank = n.rank) => m = n

\* What the caller of identify_top_movers receives: the function catches every
\* exception itself, so it is always the pair of lists.
ReturnedToCaller(call) == <<call.gainers, call.losers>>

EmptyRanking == <<<<>>, <<>>>>

\* C6 as stated: with no index level stored for the date, identify_top_movers
\* fails with a missing-index-level condition its caller can tell from a
\* successful ranking that found no movers.
C6_MissingIndexSurfaced ==
  (last.op = "identify_top_movers" /\ last.index_level = None) =>
    ReturnedToCaller(last) # EmptyRanking

\* C6: with no index level stored for the date, identify_top_movers returns two
\* empty lists, as a ranking without movers does, writes no mover record and
\* fetches or refreshes nothing: every table is as it was.
C6_MissingIndexReturnsEmpty ==
  [][(/\ last'.op = "identify_top_movers"
      /\ ~\E r \in indexSummaries : r.date = last'.date)
       => /\ ReturnedToCaller(last') = EmptyRanking
          /\ UNCHANGED <<constituents, dailyPrices, indexSummaries, marketMovers,
                         dailyReports>>]_vars

\* The index level is missing although prices that would rank are stored.
C6_Witness ==
  /\ last.op = "identify_top_movers"
  /\ last.index_level = None /\ last.error = "ValueError"
  /\ \E p \in dailyPrices : p.date = last.date /\ p.percent_change > 0
  /\ \E i \in DOMAIN constituents : constituents[i].is_active
  /\ marketMovers = {}

\* C7 as stated: identify_top_movers does not refresh the registry; the
\* constituent table is unchanged by the ranking call.
C7_RankingLeavesRegistry ==
  [][last'.op = "identify_top_movers" => constituents' = constituents]_vars

\* C7: with an index level but no active constituent, identify_top_movers
\* refreshes the registry itself (update_sp500_constituents with the list S3
\* holds) and ranks the refreshed constituents; if the refresh fails it returns
\* two empty lists.
C7_RefreshesRegistry ==
  [][(/\ last'.op = "identify_top_movers"
      /\ ActiveConstituents(constituents) = <<>>
      /\ \E r \in indexSummaries : r.date = last'.date)
       => /\ last'.refreshed
          /\ \E loaded \in S3Loads :
               /\ constituents' = update_sp500_constituents(DB, loaded).db.constituents
               /\ loaded.error =>
                    /\ last'.error = "RuntimeError"
                    /\ ReturnedToCaller(last') = EmptyRanking
               /\ ~loaded.error =>
                    last'.movers =
                      SortMovers(BuildMovers(DB', ActiveConstituents(constituents'),
                                             last'.date, last'.index_level))]_vars

\* A ranking that found every constituent inactive, refreshed and ranked.
C7_Witness ==
  /\ last.op = "identify_top_movers"
  /\ last.refreshed /\ last.error = "none"
  /\ last.gainers # <<>>
  /\ marketMovers # {}

\* C8: a second identify_top_movers call for the same date, directly after the
\* first and so with the same constituents, prices and index level, returns the
\* gainers and losers lists the first returned.
C8_RerunSameLists ==
  [][(/\ last.op = "identify_top_movers" /\ last'.op = "identify_top_movers"
      /\ last'.date = last.date
      /\ last.index_level # None
      /\ ~last'.refreshed)
       => ReturnedToCaller(last') = ReturnedToCaller(last)]_vars

\* C9: there is at most one MarketMover per (symbol, date), and a call for a
\* date that already has mover records is rejected: the records of the table
\* are the same afterwards.
C9_DuplicateRejected ==
  /\ [](\A m, n \in marketMovers :
          (m.symbol = n.symbol /\ m.date = n.date) => m = n)
  /\ [][(/\ last'.op = "identify_top_movers"
         /\ \E m \in marketMovers : m.date = last'.date)
          => marketMovers' = marketMovers]_vars

\* C10: a run of generate_and_send_report that starts with the mover records of
\* its date stored and no report, finds registry, index level and prices as
\* they are and meets no failure of a collaborator, returns True (and has
\* stored the report).
C10_RerunCompletes ==
  (run.pc = "done" /\ run.had_movers /\ run.clean /\ ~run.changed) =>
    /\ run.result = TRUE
    /\ \E r \in dailyReports : r.date = run.date

\* The active constituents that have an observation of the date with a
\* percent_change, in registry order.
Observed(d) ==
  SelectSeq(ActiveConstituents(constituents),
            LAMBDA c : \E r \in dailyPrices :
                         r.date = d /\ r.symbol = c.symbol /\ r.percent_change # None)

SymbolsIn(seq) == {seq[i].symbol : i \in DOMAIN seq}

\* C11: an active constituent without a price observation of the date, or with
\* one whose percent_change is null, is in neither list and raises nothing: the
\* candidates and the two lists are those of a registry without it.
C11_UnobservedExcluded ==
  (last.op = "identify_top_movers" /\ last.error \in {"none", "IntegrityError"}) =>
    LET active == ActiveConstituents(constituents)
        without == SortMovers(BuildMovers(DB, Observed(last.date), last.date,
                                          last.index_level))
    IN  /\ \A i \in DOMAIN active :
             active[i].symbol \notin SymbolsIn(Observed(last.date)) =>
               active[i].symbol \notin
                 SymbolsIn(last.movers) \cup SymbolsIn(last.gainers)
                   \cup SymbolsIn(last.losers)
        /\ last.movers = without
        /\ last.error = "none" =>
             /\ last.gainers = Gainers(without)
             /\ last.losers = Losers(without)

\* A ranking that succeeded with a gainer and a loser while one active
\* constituent had a null percent_change and another no observation at all.
C11_Witness ==
  /\ last.op = "identify_top_movers" /\ last.error = "none"
  /\ last.gainers # <<>> /\ last.losers # <<>>
  /\ \E i \in DOMAIN constituents :
       /\ constituents[i].is_active
       /\ \E r \in dailyPrices :
            /\ r.symbol = constituents[i].symbol /\ r.date = last.date
            /\ r.percent_change = None
  /\ \E i \in DOMAIN constituents :
       /\ constituents[i].is_active
       /\ ~\E r \in dailyPrices :
             r.symbol = constituents[i].symbol /\ r.date = last.date

\* The stages of a report run, in the order the code calls them.
StageOrder == <<"registry", "index", "prices", "ranking", "news", "sentiment">>

IsPrefix(a, b) == Len(a) <= Len(b) /\ a = SubSeq(b, 1, Len(a))

\* C12 as stated: in every run identify_top_movers starts only after a price
\* fetch was attempted for every active constituent, and the stages come in the
\* order registry refresh, price fetch, ranking, news fetch, sentiment alignment.
C12_AllFetchedBeforeRanking ==
  run.pc # "idle" =>
    /\ run.pc = "rank" =>
         SymbolsIn(ActiveConstituents(constituents)) \subseteq run.attempted
    /\ IsPrefix(run.stages, StageOrder)

\* C12: when identify_top_movers starts, a price fetch was attempted for every
\* active constituent if TEST_MODE is off and for the first TEST_STOCK_COUNT
\* active constituents, and no other, if it is on; the stages come in the order
\* registry refresh, index summary, price fetch, ranking, news fetch, sentiment
\* alignment.
C12_FetchedBeforeRanking ==
  run.pc # "idle" =>
    /\ run.pc = "rank" =>
         LET active == ActiveConstituents(constituents)
             n == IF TEST_MODE THEN Min(TEST_STOCK_COUNT, Len(active)) ELSE Len(active)
         IN  run.attempted = {active[i].symbol : i \in 1..n}
    /\ IsPrefix(run.stages, StageOrder)

\* A test-mode run that went through every stage although an active
\* constituent was left out of its price fetch.
C12_Witness ==
  /\ run.pc = "render"
  /\ run.stages = StageOrder
  /\ TEST_MODE
  /\ run.attempted # {}
  /\ ~(SymbolsIn(ActiveConstituents(constituents)) \subseteq run.attempted)

ArticlesOf(d) == {i \in DOMAIN newsArticles : newsArticles[i].date = d}

FlaggedOf(news, symbol, d) ==
  {i \in DOMAIN news :
     news[i].date = d /\ news[i].symbol = symbol /\ news[i].is_top_headline}

\* C13: when the classifier fails on one article during
\* analyze_sentiment_for_date, only that article stays unscored: every other
\* article of the date is scored and stored after the pass, and the
\* representative articles of every mover are selected.
C13_FailureIsolated ==
  last.op = "analyze_sentiment_for_date" =>
    /\ \A i \in ArticlesOf(last.date) :
         ~SentimentPipeline(newsArticles[i].headline).raises =>
           newsArticles[i].sentiment_score # None
    /\ \A m \in marketMovers :
         m.date = last.date =>
           FlaggedOf(newsArticles, m.symbol, last.date)
             = Range(TopArticles(newsArticles, m, last.date))

\* C14: analyze_sentiment_for_date passes to the classifier only articles of the
\* date that have no stored sentiment; an article that has a label and a score
\* keeps both and is not passed again.
C14_OnlyUnscoredClassified ==
  [][last'.op = "analyze_sentiment_for_date" =>
       /\ \A j \in DOMAIN last'.classified :
            \E i \in ArticlesOf(last'.date) :
              /\ newsArticles[i].url = last'.classified[j]
              /\ newsArticles[i].sentiment_score = None
       /\ \A i \in DOMAIN newsArticles :
            newsArticles[i].sentiment_score # None =>
              /\ newsArticles'[i].sentiment_label = newsArticles[i].sentiment_label
              /\ newsArticles'[i].sentiment_score = newsArticles[i].sentiment_score
              /\ newsArticles[i].url \notin Range(last'.classified)]_vars

\* A pass that scored new articles next to articles scored by an earlier pass.
C14_Witness ==
  /\ last.op = "analyze_sentiment_for_date" /\ last.raised = "none"
  /\ last.classified # <<>>
  /\ \E i \in ArticlesOf(last.date) :
       /\ newsArticles[i].sentiment_score # None
       /\ newsArticles[i].url \notin Range(last.classified)

FlagsOf(news) == [i \in DOMAIN news |-> news[i].is_top_headline]

\* C15: a second analyze_sentiment_for_date for the date, directly after the
\* first, leaves the same articles flagged representative and the same headline
\* text, score and URL on every mover.
C15_AlignmentIdempotent ==
  [][(/\ last.op = "analyze_sentiment_for_date"
      /\ last'.op = "analyze_sentiment_for_date"
      /\ last'.date = last.date)
       => /\ FlagsOf(newsArticles') = FlagsOf(newsArticles)
          /\ marketMovers' = marketMovers]_vars

\* A pass that found nothing left to score, with articles flagged and a
\* headline on a gainer and on a loser.
C15_Witness ==
  /\ last.op = "analyze_sentiment_for_date" /\ last.raised = "none"
  /\ last.classified = <<>>
  /\ \E m \in marketMovers : m.positive_headline # None
  /\ \E m \in marketMovers : m.negative_headline # None
  /\ \E i \in DOMAIN newsArticles :
       newsArticles[i].is_top_headline /\ newsArticles[i].symbol = 1
  /\ \E i \in DOMAIN newsArticles :
       ~newsArticles[i].is_top_headline /\ newsArticles[i].symbol = 1
         /\ newsArticles[i].sentiment_label = "positive"

AlignedOf(news, mover) ==
  {i \in DOMAIN news :
     /\ news[i].date = mover.date /\ news[i].symbol = mover.symbol
     /\ news[i].sentiment_label = Direction(mover)}

\* C16: for every mover at most 3 articles of its symbol and date are flagged
\* representative, every flagged article carries the label of the mover's
\* direction, and after a pass the flagged articles are those the pass selected:
\* flags of earlier passes do not accumulate.
C16_AtMostThreeRepresentative ==
  \A m \in marketMovers :
    /\ Cardinality(FlaggedOf(newsArticles, m.symbol, m.date)) <= 3
    /\ FlaggedOf(newsArticles, m.symbol, m.date) \subseteq AlignedOf(newsArticles, m)
    /\ (last.op = "analyze_sentiment_for_date" /\ last.raised = "none"
          /\ last.date = m.date)
         => FlaggedOf(newsArticles, m.symbol, m.date)
              = Range(TopArticles(newsArticles, m, m.date))

\* A mover with four aligned articles, three of them flagged.
C16_Witness ==
  \E m \in marketMovers :
    /\ Cardinality(AlignedOf(newsArticles, m)) > 3
    /\ Cardinality(FlaggedOf(newsArticles, m.symbol, m.date)) = 3

HeadlineFields(m, direction) ==
  IF direction = "positive"
  THEN <<m.positive_headline, m.positive_headline_score, m.positive_headline_url>>
  ELSE <<m.negative_headline, m.negative_headline_score, m.negative_headline_url>>

Opposite(direction) == IF direction = "positive" THEN "negative" ELSE "positive"

\* C17: after analyze_sentiment_for_date, a mover with at least one article of
\* its symbol and date labelled with its direction carries, in the fields of
\* that direction, the headline, score and URL of such an article with the
\* highest score.
C17_BestAlignedHeadline ==
  last.op = "analyze_sentiment_for_date" =>
    \A m \in marketMovers :
      (m.date = last.date /\ Direction(m) # "none"
         /\ AlignedOf(newsArticles, m) # {})
        => \E i \in AlignedOf(newsArticles, m) :
             /\ \A j \in AlignedOf(newsArticles, m) :
                  newsArticles[i].sentiment_score >= newsArticles[j].sentiment_score
             /\ HeadlineFields(m, Direction(m))
                  = <<newsArticles[i].headline, newsArticles[i].sentiment_score,
                      newsArticles[i].url>>

\* A gainer and a loser that each carry the best of several aligned articles
\* of different scores.
C17_Witness ==
  /\ last.op = "analyze_sentiment_for_date"
  /\ \A direction \in {"positive", "negative"} :
       \E m \in marketMovers :
         /\ Direction(m) = direction
         /\ HeadlineFields(m, direction)[1] # None
         /\ \E i, j \in AlignedOf(newsArticles, m) :
              newsArticles[i].sentiment_score > newsArticles[j].sentiment_score

\* C18: analyze_sentiment_for_date writes only the headline fields of the
\* mover's own direction, and only if an aligned article exists; the fields of
\* the opposite direction and every other field keep their values, a mover
\* without news or without aligned news keeps all six, and such a mover raises
\* nothing: the pass fails only where the classifier does.
C18_OnlyOwnDirectionWritten ==
  [][last'.op = "analyze_sentiment_for_date" =>
       /\ \A m \in marketMovers :
            \E n \in marketMovers' :
              /\ n.symbol = m.symbol /\ n.date = m.date
              /\ [n EXCEPT !.positive_headline = None,
                           !.positive_headline_score = None,
                           !.positive_headline_url = None,
                           !.negative_headline = None,
                           !.negative_headline_score = None,
                           !.negative_headline_url = None]
                   = [m EXCEPT !.positive_headline = None,
                               !.positive_headline_score = None,
                               !.positive_headline_url = None,
                               !.negative_headline = None,
                               !.negative_headline_score = None,
                               !.negative_headline_url = None]
              /\ HeadlineFields(n, Opposite(Direction(m)))
                   = HeadlineFields(m, Opposite(Direction(m)))
              /\ AlignedOf(newsArticles', m) = {} => n = m
       /\ Cardinality(marketMovers') = Cardinality(marketMovers)
       /\ last'.raised # "none" =>
            \E i \in ArticlesOf(last'.date) :
              /\ newsArticles[i].sentiment_score = None
              /\ SentimentPipeline(newsArticles[i].headline).raises]_vars

\* A pass that gave a gainer its positive headline and left alone a mover whose
\* scored news is not aligned and a mover without news.
C18_Witness ==
  /\ last.op = "analyze_sentiment_for_date" /\ last.raised = "none"
  /\ \E m \in marketMovers :
       /\ m.positive_headline # None /\ m.negative_headline = None
  /\ \E m \in marketMovers :
       /\ AlignedOf(newsArticles, m) = {}
       /\ \E i \in DOMAIN newsArticles :
            /\ newsArticles[i].symbol = m.symbol
            /\ newsArticles[i].sentiment_score # None
       /\ HeadlineFields(m, "positive") = <<None, None, None>>
       /\ HeadlineFields(m, "negative") = <<None, None, None>>
  /\ \E m \in marketMovers :
       /\ \A i \in DOMAIN newsArticles : newsArticles[i].symbol # m.symbol
       /\ HeadlineFields(m, "positive") = <<None, None, None>>
       /\ HeadlineFields(m, "negative") = <<None, None, None>>

\* C19: once a price observation of a symbol and date is stored, no later
\* fetch_daily_prices changes it or stores a second one for the pair, whatever
\* the provider quotes then; the stored pair is skipped, so the call does not
\* fail on it.
C19_StoredPriceKept ==
  [][last'.op = "fetch_daily_prices" =>
       /\ dailyPrices \subseteq dailyPrices'
       /\ \A r1, r2 \in dailyPrices' :
            (r1.symbol = r2.symbol /\ r1.date = r2.date) => r1 = r2
       /\ last'.raised = "none"]_vars

\* A fetch in which the provider quoted a symbol differently from its stored
\* observation, next to a symbol first stored by this fetch.
C19_Witness ==
  /\ last.op = "fetch_daily_prices"
  /\ \E r \in dailyPrices :
       /\ r.date = last.date /\ r.symbol \in last.ret
       /\ r.percent_change # market.quotes[r.symbol].dp
  /\ \E r \in dailyPrices :
       /\ r.date = last.date /\ r.symbol \in last.ret
       /\ r.percent_change = market.quotes[r.symbol].dp

\* C20: there is at most one index summary per date, and once it exists
\* get_or_fetch_index_summary returns its stored values without asking the
\* provider for a quote and without modifying it.
C20_StoredSummaryReturned ==
  [][/\ \A r1, r2 \in indexSummaries' : r1.date = r2.date => r1 = r2
     /\ GetOrFetchIndexSummary =>
          \A r \in indexSummaries :
            r.date = last'.date =>
              /\ indexSummaries' = indexSummaries
              /\ last'.raised = "none"
              /\ last'.ret = r.current_price
              /\ ~last'.quoted]_vars

\* A call answered from the stored summary while SPY is quoted at another price.
C20_Witness ==
  /\ last.op = "get_or_fetch_index_summary"
  /\ ~last.quoted
  /\ \E r \in indexSummaries :
       /\ r.date = last.date /\ last.ret = r.current_price
       /\ r.current_price # market.spy * 10

\* get_or_fetch_index_summary just fetched the summary of last.date from the
\* provider's SPY quote (market.spy) and stored it.
SummaryFetched ==
  /\ last.op = "get_or_fetch_index_summary"
  /\ last.quoted /\ last.raised = "none"

RegistryFollowsList(old, items, new) ==
  LET symbols == {items[j].symbol : j \in DOMAIN items}
  IN  /\ \A i \in DOMAIN new : new[i].is_active <=> new[i].symbol \in symbols
      /\ \A j \in DOMAIN items :
           \E i \in DOMAIN new :
             /\ new[i].symbol = items[j].symbol
             /\ new[i].company_name = items[j].company
             /\ new[i].weight = items[j].weight
      /\ \A i \in DOMAIN old :
           \E k \in DOMAIN new :
             /\ new[k].symbol = old[i].symbol
             /\ old[i].symbol \notin symbols =>
                  /\ new[k].company_name = old[i].company_name
                  /\ new[k].weight = old[i].weight
      /\ \A i, k \in DOMAIN new : new[i].symbol = new[k].symbol => i = k
      /\ old = <<>> =>
           /\ Len(new) = Len(items)
           /\ \A i \in DOMAIN new : new[i].is_active

\* C22: after update_sp500_constituents completes, a record is active exactly
\* when its symbol is in the loaded list, with the list's name and weight;
\* records of other symbols are deactivated and kept, there is one record per
\* symbol, and an empty registry ends with one active record per list entry.
C22_RegistryFollowsList ==
  [][\A loaded \in S3Loads :
       (/\ ~loaded.error
        /\ last' = [op |-> "update_sp500_constituents", raised |-> "none",
                    ret |-> Len(loaded.data)]
        /\ constituents' = update_sp500_constituents(DB, loaded).db.constituents)
         => RegistryFollowsList(constituents, loaded.data, constituents')]_vars

\* A completed update that deactivated a dropped symbol and renamed the others.
C22_Witness ==
  /\ last.op = "update_sp500_constituents" /\ last.raised = "none"
  /\ last.ret = Len(RebalancedList)
  /\ \E i \in DOMAIN constituents :
       /\ ~constituents[i].is_active
       /\ constituents[i].company_name = 100 + constituents[i].symbol
  /\ \E i \in DOMAIN constituents :
       /\ constituents[i].is_active
       /\ constituents[i].company_name = 200 + constituents[i].symbol

\* C23: no two stored news articles share a symbol and a url, also when the
\* provider lists a url twice in one response or again in a later fetch.
C23_ArticleKeyUnique ==
  \A i, j \in DOMAIN newsArticles :
    (newsArticles[i].symbol = newsArticles[j].symbol
       /\ newsArticles[i].url = newsArticles[j].url) => i = j

\* `selected` is the first min(5, k) of the k entries of `candidates` (in their
\* order), and no entry left out has a strictly larger absolute contribution
\* than one that is in.
FirstFiveByImpact(selected, candidates) ==
  /\ Len(selected) = Min(5, Len(candidates))
  /\ \A j \in DOMAIN selected : selected[j] = candidates[j]
  /\ \A i \in DOMAIN candidates :
       candidates[i].symbol \notin SymbolsIn(selected) =>
         \A j \in DOMAIN selected :
           Abs(candidates[i].index_points_contribution)
             <= Abs(selected[j].index_points_contribution)

\* C24: the gainers list is the first min(5, k) of the k candidates with a
\* positive percent_change, in the order of absolute contribution, the losers
\* list likewise for a negative percent_change, and no candidate left out of
\* its list has a strictly larger absolute contribution than one in it.
C24_TopByAbsImpact ==
  (last.op = "identify_top_movers" /\ last.error = "none") =>
    /\ FirstFiveByImpact(last.gainers,
                         SelectSeq(last.movers, LAMBDA m : m.percent_change > 0))
    /\ FirstFiveByImpact(last.losers,
                         SelectSeq(last.movers, LAMBDA m : m.percent_change < 0))
    /\ SymbolsIn(last.movers) = SymbolsIn(Observed(last.date))

\* Six candidates rose and the one left out has a larger percent_change than a
\* gainer that is in.
C24_Witness ==
  /\ last.op = "identify_top_movers" /\ last.error = "none"
  /\ Len(last.gainers) = 5
  /\ \E i \in DOMAIN last.movers :
       /\ last.movers[i].symbol \notin SymbolsIn(last.gainers)
       /\ \E j \in DOMAIN last.gainers :
            /\ last.movers[i].percent_change > last.gainers[j].percent_change
            /\ last.movers[i].index_points_contribution
                 < last.gainers[j].index_points_contribution

\* Exactly one row of `rows` stands for the returned entry `e`, with its values.
RecordedOnce(rows, e) ==
  Cardinality({m \in rows :
                 /\ m.symbol = e.symbol
                 /\ m.percent_change = e.percent_change
                 /\ m.index_points_contribution = e.index_points_contribution
                 /\ m.close_price = e.close_price}) = 1

\* C25: when identify_top_movers succeeds for a date without mover records, the
\* mover records of the date are one per returned gainer and loser, with its
\* symbol, percent_change, contribution and close price; a record is a "gainer"
\* iff its percent_change is positive and a "loser" iff it is negative, and no
\* symbol is recorded twice.
C25_RecordsMatchLists ==
  [][(/\ last'.op = "identify_top_movers" /\ last'.error = "none"
      /\ \A m \in marketMovers : m.date # last'.date)
       => LET rows == {m \in marketMovers' : m.date = last'.date}
          IN  /\ \A i \in DOMAIN last'.gainers : RecordedOnce(rows, last'.gainers[i])
              /\ \A i \in DOMAIN last'.losers : RecordedOnce(rows, last'.losers[i])
              /\ Cardinality(rows) = Len(last'.gainers) + Len(last'.losers)
              /\ \A m \in rows :
                   /\ m.mover_type \in {"gainer", "loser"}
                   /\ m.mover_type = "gainer" <=> m.percent_change > 0
                   /\ m.mover_type = "loser" <=> m.percent_change < 0
                   /\ m.mover_type = "gainer" <=> m.symbol \in SymbolsIn(last'.gainers)
                   /\ m.mover_type = "loser" <=> m.symbol \in SymbolsIn(last'.losers)
              /\ \A m1, m2 \in rows : m1.symbol = m2.symbol => m1 = m2]_vars

\* A first ranking of the date that recorded gainers and losers.
C25_Witness ==
  /\ last.op = "identify_top_movers" /\ last.error = "none"
  /\ Len(last.gainers) >= 2 /\ Len(last.losers) >= 2
  /\ Cardinality(marketMovers) = Len(last.gainers) + Len(last.losers)

\* The values of the provider's quote of symbol s.
QuoteValues(s) ==
  [current_price |-> market.quotes[s].c, percent_change |-> market.quotes[s].dp]

RowsOf(prices, s, d) == {r \in prices : r.symbol = s /\ r.date = d}

\* C26: fetch_daily_prices handles each symbol on its own. The map it returns
\* has, for every requested symbol with a valid quote, the quote's values, and
\* nothing for the others; such a symbol with a constituent record and no
\* observation of the date gets exactly one, with those values; the
\* observations of a symbol without a valid quote are left as they are, and
\* the call does not fail.
C26_SymbolsIndependent ==
  [][FetchDailyPrices =>
       LET d == last'.date
           requested == SymbolsIn(ActiveConstituents(constituents))
       IN  /\ last'.raised = "none"
           /\ DOMAIN last'.prices \subseteq requested
           /\ \A s \in requested :
                IF s \in DOMAIN last'.prices
                THEN /\ last'.prices[s] = QuoteValues(s)
                     /\ (HasSymbol(constituents, s) /\ RowsOf(dailyPrices, s, d) = {})
                          => RowsOf(dailyPrices', s, d)
                               = {[symbol |-> s, date |-> d,
                                   current_price |-> QuoteValues(s).current_price,
                                   percent_change |-> QuoteValues(s).percent_change]}
                ELSE RowsOf(dailyPrices', s, d) = RowsOf(dailyPrices, s, d)]_vars

\* A fetch in which the first symbol had no valid quote and the symbols after it
\* were returned and stored.
C26_Witness ==
  /\ last.op = "fetch_daily_prices" /\ last.raised = "none"
  /\ LET requested == SymbolSeq(ActiveConstituents(constituents))
     IN  /\ Len(requested) >= 3
         /\ requested[1] \notin DOMAIN last.prices
         /\ RowsOf(dailyPrices, requested[1], last.date) = {}
         /\ \A i \in 2..Len(requested) :
              /\ requested[i] \in DOMAIN last.prices
              /\ RowsOf(dailyPrices, requested[i], last.date) # {}

\* C27: identify_top_movers is all-or-nothing for mover records: it commits a
\* record for every gainer and loser it returns and leaves the earlier records,
\* or, on any error, a failed commit included, it returns two empty lists and
\* leaves the mover records as they were.
C27_RankingAllOrNothing ==
  [][last'.op = "identify_top_movers" =>
       IF last'.error = "none"
       THEN /\ marketMovers \subseteq marketMovers'
            /\ \A i \in DOMAIN last'.gainers :
                 RecordedOnce({m \in marketMovers' : m.date = last'.date},
                              last'.gainers[i])
            /\ \A i \in DOMAIN last'.losers :
                 RecordedOnce({m \in marketMovers' : m.date = last'.date},
                              last'.losers[i])
            /\ Cardinality(marketMovers' \ marketMovers)
                 = Len(last'.gainers) + Len(last'.losers)
       ELSE /\ last'.gainers = <<>> /\ last'.losers = <<>>
            /\ marketMovers' = marketMovers]_vars

\* A ranking whose commit failed on the records of an earlier ranking: it had
\* candidates of both signs, returned nothing and the earlier records stand.
C27_Witness ==
  /\ last.op = "identify_top_movers" /\ last.error = "IntegrityError"
  /\ Gainers(last.movers) # <<>> /\ Losers(last.movers) # <<>>
  /\ last.gainers = <<>> /\ last.losers = <<>>
  /\ marketMovers # {}

\* C28: however the runs of generate_and_send_report for a date interleave, at
\* most one report record of the date exists and at most one of the runs
\* sends the report to the subscribers, once.
C28_OneReportOneMail ==
  /\ \A d \in Dates : Cardinality({r \in dailyReports : r.date = d}) <= 1
  /\ \A i, j \in Runs : i # j => run[i].sends + run[j].sends <= 1
  /\ \A i \in Runs : run[i].sends <= 1

\* Both runs got past the existing-report check and the ranking; one stored the
\* report and sent it, the other's commit was rejected.
C28_Witness ==
  \E i, j \in Runs :
    /\ i # j
    /\ run[i].pc = "done" /\ run[i].result /\ run[i].sends = 1
    /\ run[j].pc = "done" /\ ~run[j].result
    /\ run[j].gainers # <<>>
    /\ run[i].gainers # <<>>
    /\ Cardinality(dailyReports) = 1

\* C29: through the one limiter its callers share, the underlying function
\* of a call never begins less than 60 / calls_per_minute seconds after the
\* underlying call before it ended, returned or raised.
C29_CallsSpaced ==
  clock.gap = None \/ clock.gap >= rate_limit_seconds

RecordsOf(subs, email) == {i \in DOMAIN subs : subs[i].email = email}

\* C30: after any sequence of subscribe and unsubscribe requests there is at
\* most one subscription record per email, active exactly when the last
\* accepted request for the email was a subscribe; subscribing an active email
\* is answered 400 and unsubscribing an unknown one 404, and a request that is
\* not accepted leaves the records as they were.
C30_SubscriptionFollowsRequests ==
  [][(last'.op \in {"subscribe", "unsubscribe"}) =>
       LET before == RecordsOf(userSubscriptions, last'.email)
       IN  /\ \A e \in Emails :
                /\ Cardinality(RecordsOf(userSubscriptions', e)) <= 1
                /\ \A i \in RecordsOf(userSubscriptions', e) :
                     userSubscriptions'[i].send_daily_report
                       <=> last'.accepted[e] = "subscribe"
                /\ RecordsOf(userSubscriptions', e) = {}
                     <=> last'.accepted[e] = "none"
           /\ (/\ last'.op = "subscribe"
               /\ \E i \in before : userSubscriptions[i].send_daily_report)
                => last'.status = 400
           /\ (last'.op = "unsubscribe" /\ before = {}) => last'.status = 404
           /\ last'.status # 200 => userSubscriptions' = userSubscriptions]_vars

\* The cancellation for an unknown email was answered 404 while the other email,
\* whose last accepted request is a subscribe, holds one active record.
C30_Witness ==
  /\ last.op = "unsubscribe" /\ last.status = 404
  /\ \E e \in Emails :
       /\ e # last.email
       /\ last.accepted[e] = "subscribe"
       /\ \E i \in RecordsOf(userSubscriptions, e) :
            /\ userSubscriptions[i].send_daily_report
            /\ userSubscriptions[i].timezone = "Europe/Paris"

====
